---- MODULE Spec2Model ----
(***************************************************************************)
(* Model of the Batch accumulator of package pixel (src/batch.go).         *)
(*                                                                         *)
(* Numbers.  Positions, matrix entries and picture coordinates are small   *)
(* integers, on which float64 arithmetic is exact.  A colour component is  *)
(* a fixed-point number counted in 64ths (64 is 1.0, 32 is 0.5); the       *)
(* colours fed to the model have components 0, 0.5 or 1, so a product of   *)
(* up to six of them is a whole number of 64ths and equals the float64     *)
(* product.  MaxOps bounds the number of calls of a run, and with them the *)
(* number of tints a colour has gone through.                              *)
(*                                                                         *)
(* References.  A batchTriangles embeds the interface value returned by    *)
(* t.Copy(); the model keeps, per geometry, the caller's container and the *)
(* copy in a heap and stores in the geometry which of the two the embedded *)
(* Triangles refers to.                                                    *)
(***************************************************************************)
EXTENDS Integers, Sequences, FiniteSets

\* ------------------------------------------------------------------ bounds
MaxOps     == 4     \* calls made after the batches are created
MaxGeomLen == 2     \* longest container handed to MakeTriangles / Update
MaxInitLen == 1     \* longest container handed to NewBatch

\* ------------------------------------------------------------------ values
Batches  == {"A", "B"}
Geoms    == {1}
Regions  == {1, 2, 3}
NilBatch == "nil"                                  \* a nil *Batch

\* V(x, y) builds a Vec.
V(x, y) == <<x, y>>

\* NRGBA{R, G, B, A}, components in 64ths.
NRGBA(r, g, b, a) == <<r, g, b, a>>

ZeroMatrix == <<0, 0, 0, 0, 0, 0, 0, 0, 0>>        \* Go zero value of Matrix
IM         == <<1, 0, 0, 0, 1, 0, 0, 0, 1>>        \* identity, column-major
MA         == <<2, 1, 0, 0, 1, 0, 1, 0, 1>>        \* x' = 2x + 1, y' = x + y
MatrixInputs == {IM, MA}

ZeroColor == NRGBA(0, 0, 0, 0)                     \* Go zero value of NRGBA
White     == NRGBA(64, 64, 64, 64)                     \* NRGBA{1, 1, 1, 1}
Half      == NRGBA(32, 32, 32, 64)                     \* NRGBA{0.5, 0.5, 0.5, 1}
NilColor  == <<>>                                  \* a nil color.Color
ColorInputs == {NilColor, Half}

Vertex(p, c, pic, in) == [Position |-> p, Color |-> c, Picture |-> pic, Intensity |-> in]

V1 == Vertex(V(1, 0), NRGBA(64, 64, 64, 64), V(1, 0), 1)
V2 == Vertex(V(0, 1), NRGBA(64, 32, 0, 32), V(0, 1), 0)
Vertices == {V1, V2}

\* the element MakeTrianglesData and SetLen fill new slots with
DefaultVertex == Vertex(V(0, 0), NRGBA(64, 64, 64, 64), V(0, 0), 0)

\* the containers a caller hands to MakeTriangles: V1, V2, V1, ... of every
\* length up to MaxGeomLen
Source(n) == [i \in 1..n |-> IF i % 2 = 1 THEN V1 ELSE V2]
Sources   == {Source(n) : n \in 0..MaxGeomLen}

\* the containers a caller hands to Update of a bound geometry, and what it
\* writes into its own container later on: V2 everywhere
Rewrite(n) == [i \in 1..n |-> V2]
Rewrites   == {Rewrite(n) : n \in 1..MaxGeomLen}

\* the containers a caller hands to NewBatch
InitContainers == {Rewrite(n) : n \in 0..MaxInitLen}

\* the pictures a caller hands to NewBatch
NilPicture == "nil"                                \* a nil Picture
Atlas      == "atlas"
InitPictures == {NilPicture, Atlas}

\* the two calls of NewBatch: batch "A" gets any of those containers and a
\* picture, batch "B" an empty container and no picture
NewBatchInputs ==
    {cs \in [Batches -> [container : InitContainers, pic : InitPictures]] :
        /\ cs["A"].pic = Atlas
        /\ cs["B"] = [container |-> <<>>, pic |-> NilPicture]}

\* ------------------------------------------------- the Triangles operations
\* MakeTrianglesData(len): len default vertices.
MakeTrianglesData(len) == [i \in 1..len |-> DefaultVertex]

\* t.SetLen(len): truncate, or extend with default vertices.
SetLen(t, len) ==
    IF len <= Len(t) THEN SubSeq(t, 1, len)
    ELSE t \o MakeTrianglesData(len - Len(t))

\* t.Update(t2) needs equal lengths, and then copies every property.
UpdateOK(t, t2) == Len(t) = Len(t2)
Update(t, t2) == [i \in 1..Len(t) |-> t2[i]]

\* t.Slice(i, j).Update(t2): the slice aliases t[i:j], so the update is
\* seen in t.
SliceUpdate(t, i, j, t2) ==
    [k \in 1..Len(t) |-> IF k > i /\ k <= j THEN Update(SubSeq(t, i + 1, j), t2)[k - i] ELSE t[k]]

\* t.Copy(): an independent container with the same vertices.
Copy(t) == [i \in 1..Len(t) |-> t[i]]

\* mgl64.Mat3.Mul3x1 (column-major 3x3 times a column vector).
Mul3x1(m, v) ==
    << m[1] * v[1] + m[4] * v[2] + m[7] * v[3],
       m[2] * v[1] + m[5] * v[2] + m[8] * v[3],
       m[3] * v[1] + m[6] * v[2] + m[9] * v[3] >>

\* NRGBA.Mul: component-wise product; the components are 64ths.
Mul(c, d) == NRGBA((c[1] * d[1]) \div 64, (c[2] * d[2]) \div 64,
                   (c[3] * d[3]) \div 64, (c[4] * d[4]) \div 64)

\* NRGBAModel.Convert on a colour that already is an NRGBA.
NRGBAModelConvert(c) == NRGBA(c[1], c[2], c[3], c[4])

\* ------------------------------------------------------------------- state
VARIABLES
    cont,     \* cont[b]: b.cont.Triangles, the accumulation buffer
    contPicture,  \* contPicture[b]: b.cont.Picture
    dirty,    \* dirty[b]: b.cont was marked by Dirty()
    mat,      \* mat[b]: b.mat
    col,      \* col[b]: b.col
    bt,       \* bt[g]: the batchTriangles g (Triangles is a heap reference)
    heap,     \* heap[g].t: the caller's container, heap[g].copy: t.Copy()
    bp,       \* bp[r]: the batchPicture r
    last,     \* the last call and how it ended
    drawn,    \* drawn[b]: vertices drawn into b since NewBatch or Clear
    snap,     \* snap[g]: the container as it was handed to MakeTriangles
    fresh,    \* fresh[b]: neither SetMatrix nor SetColorMask was called on b
    parent,   \* parent[r]: the region r was sliced from, 0 for MakePicture
    flushed,  \* flushed[b]: whether b.Draw was called, and the buffer it sent
    ops       \* number of calls made so far

vars == <<cont, contPicture, dirty, mat, col, bt, heap, bp, last, drawn, snap, fresh, parent,
          flushed, ops>>

\* one more call
Tick == ops < MaxOps /\ ops' = ops + 1

NoTriangles == [made |-> FALSE, Triangles |-> "copy", orig |-> <<>>, trans |-> <<>>,
                b |-> NilBatch]
NoPicture(r) == [made |-> FALSE, Picture |-> 0, original |-> r, b |-> NilBatch]

\* a call, the objects it was made on, how it ended, and the length the
\* buffer of b had when it was made
Call(op, b, g, r, err) ==
    [op |-> op, b |-> b, g |-> g, r |-> r, err |-> err,
     len |-> IF b \in Batches THEN Len(cont[b]) ELSE 0]

\* the container the embedded Triangles of g refers to
Deref(g) == heap[g][bt[g].Triangles]

\* NewBatch(container, pic): the fields of the Batch literal.
NewBatch(container, pic) ==
    [cont |-> [Triangles |-> container, Picture |-> pic],
     mat |-> ZeroMatrix, col |-> ZeroColor]

Init ==
    /\ \E cs \in NewBatchInputs :
            /\ cont = [b \in Batches |->
                            NewBatch(cs[b].container, cs[b].pic).cont.Triangles]
            /\ contPicture = [b \in Batches |->
                            NewBatch(cs[b].container, cs[b].pic).cont.Picture]
            /\ mat  = [b \in Batches |-> NewBatch(cs[b].container, cs[b].pic).mat]
            /\ col  = [b \in Batches |-> NewBatch(cs[b].container, cs[b].pic).col]
    /\ dirty = [b \in Batches |-> FALSE]
    /\ bt    = [g \in Geoms |-> NoTriangles]
    /\ heap  = [g \in Geoms |-> [t |-> <<>>, copy |-> <<>>]]
    /\ bp    = [r \in Regions |-> NoPicture(r)]
    /\ last  = Call("NewBatch", NilBatch, 0, 0, "")
    /\ drawn = [b \in Batches |-> 0]
    /\ snap  = [g \in Geoms |-> <<>>]
    /\ fresh = [b \in Batches |-> TRUE]
    /\ parent  = [r \in Regions |-> 0]
    /\ flushed = [b \in Batches |-> [done |-> FALSE, cont |-> <<>>]]
    /\ ops   = 0

\* ------------------------------------------------------------ Batch methods
\* Clear without the Dirty()
ClearNotDirty(b) ==
    /\ Tick
    /\ cont'  = [cont EXCEPT ![b] = SetLen(cont[b], 0)]
    /\ drawn' = [drawn EXCEPT ![b] = 0]
    /\ last'  = Call("Clear", b, 0, 0, "")
    /\ UNCHANGED <<contPicture, dirty, mat, col, bt, heap, bp, snap, fresh, parent, flushed>>

\* Clear without the SetLen(0)
ClearKeepsVertices(b) ==
    /\ Tick
    /\ dirty' = [dirty EXCEPT ![b] = TRUE]
    /\ drawn' = [drawn EXCEPT ![b] = 0]
    /\ last'  = Call("Clear", b, 0, 0, "")
    /\ UNCHANGED <<contPicture, cont, mat, col, bt, heap, bp, snap, fresh, parent, flushed>>

\* b.Clear()
Clear(b) ==
    /\ Tick
    /\ cont'  = [cont EXCEPT ![b] = SetLen(cont[b], 0)]
    /\ dirty' = [dirty EXCEPT ![b] = TRUE]
    /\ drawn' = [drawn EXCEPT ![b] = 0]
    /\ last'  = Call("Clear", b, 0, 0, "")
    /\ UNCHANGED <<contPicture, mat, col, bt, heap, bp, snap, fresh, parent, flushed>>

\* SetMatrix that also projects the vertices already in the buffer
SetMatrixRetroactive(b, m) ==
    /\ Tick
    /\ mat'   = [mat EXCEPT ![b] = m]
    /\ cont'  = [cont EXCEPT ![b] =
                    [i \in 1..Len(cont[b]) |->
                        [cont[b][i] EXCEPT !.Position =
                            V(Mul3x1(m, <<cont[b][i].Position[1], cont[b][i].Position[2], 1>>)[1],
                              Mul3x1(m, <<cont[b][i].Position[1], cont[b][i].Position[2], 1>>)[2])]]]
    /\ fresh' = [fresh EXCEPT ![b] = FALSE]
    /\ last'  = Call("SetMatrix", b, 0, 0, "")
    /\ UNCHANGED <<contPicture, dirty, col, bt, heap, bp, drawn, snap, parent, flushed>>

\* b.SetMatrix(m)
SetMatrix(b, m) ==
    /\ Tick
    /\ mat'   = [mat EXCEPT ![b] = m]
    /\ fresh' = [fresh EXCEPT ![b] = FALSE]
    /\ last'  = Call("SetMatrix", b, 0, 0, "")
    /\ UNCHANGED <<contPicture, cont, dirty, col, bt, heap, bp, drawn, snap, parent, flushed>>

\* SetColorMask that returns on a nil colour without setting the mask
SetColorMaskNilKeeps(b, c) ==
    /\ Tick
    /\ col'   = [col EXCEPT ![b] = IF c = NilColor THEN col[b]
                                   ELSE NRGBAModelConvert(c)]
    /\ fresh' = [fresh EXCEPT ![b] = FALSE]
    /\ last'  = [op |-> "SetColorMask", b |-> b, g |-> 0, r |-> 0, err |-> "",
                 len |-> Len(cont[b]), nilColor |-> c = NilColor]
    /\ UNCHANGED <<contPicture, cont, dirty, mat, bt, heap, bp, drawn, snap, parent, flushed>>

\* b.SetColorMask(c); the call is recorded with whether c was nil
SetColorMask(b, c) ==
    /\ Tick
    /\ col'   = [col EXCEPT ![b] = IF c = NilColor THEN NRGBA(64, 64, 64, 64)
                                   ELSE NRGBAModelConvert(c)]
    /\ fresh' = [fresh EXCEPT ![b] = FALSE]
    /\ last'  = [op |-> "SetColorMask", b |-> b, g |-> 0, r |-> 0, err |-> "",
                 len |-> Len(cont[b]), nilColor |-> c = NilColor]
    /\ UNCHANGED <<contPicture, cont, dirty, mat, bt, heap, bp, drawn, snap, parent, flushed>>

\* the Triangles field referring to t itself
MakeTrianglesNoCopy == "t"

\* what the Triangles field of a new batchTriangles refers to: t.Copy()
MakeTrianglesTriangles == "copy"

\* b.MakeTriangles(t), the result kept as geometry g
MakeTriangles(b, g, t) ==
    LET orig  == Update(MakeTrianglesData(Len(t)), t)
        trans == Update(MakeTrianglesData(Len(t)), orig)
    IN  /\ Tick
        /\ heap' = [heap EXCEPT ![g] = [t |-> t, copy |-> Copy(t)]]
        /\ bt'   = [bt EXCEPT ![g] = [made |-> TRUE, Triangles |-> MakeTrianglesTriangles,
                                       orig |-> orig, trans |-> trans, b |-> b]]
        /\ snap' = [snap EXCEPT ![g] = t]
        /\ last' = Call("MakeTriangles", b, g, 0, "")
        /\ UNCHANGED <<contPicture, cont, dirty, mat, col, bp, drawn, fresh, parent, flushed>>

\* b.MakePicture(p), the result kept as region r
MakePicture(b, r) ==
    /\ Tick
    /\ ~bp[r].made
    /\ \A q \in Regions : q < r => bp[q].made
    /\ bp'   = [bp EXCEPT ![r] = [made |-> TRUE, Picture |-> 0, original |-> r, b |-> b]]
    /\ last' = Call("MakePicture", b, 0, r, "")
    /\ UNCHANGED <<contPicture, cont, dirty, mat, col, bt, heap, drawn, snap, fresh,
                   parent, flushed>>

\* ------------------------------------------------------------ batchPicture
\* Slice that takes the sliced region for the original
batchPictureSliceOfParent(r, s) ==
    /\ Tick
    /\ bp[r].made
    /\ ~bp[s].made
    /\ \A q \in Regions : q < s => bp[q].made
    /\ bp'   = [bp EXCEPT ![s] = [made |-> TRUE, Picture |-> bp[r].Picture + 1,
                                   original |-> r, b |-> NilBatch]]
    /\ parent' = [parent EXCEPT ![s] = r]
    /\ last' = Call("batchPictureSlice", NilBatch, 0, s, "")
    /\ UNCHANGED <<contPicture, cont, dirty, mat, col, bt, heap, drawn, snap, fresh, flushed>>

\* bp.Slice(rect), the result kept as region s: the literal sets Picture and
\* original and leaves b nil.
batchPictureSlice(r, s) ==
    /\ Tick
    /\ bp[r].made
    /\ ~bp[s].made
    /\ \A q \in Regions : q < s => bp[q].made
    /\ bp'   = [bp EXCEPT ![s] = [made |-> TRUE, Picture |-> bp[r].Picture + 1,
                                   original |-> bp[r].original, b |-> NilBatch]]
    /\ parent' = [parent EXCEPT ![s] = r]
    /\ last' = Call("batchPictureSlice", NilBatch, 0, s, "")
    /\ UNCHANGED <<contPicture, cont, dirty, mat, col, bt, heap, drawn, snap, fresh, flushed>>

\* bp.Original()
batchPictureOriginal(r) == bp[r].original

\* ---------------------------------------------------------- batchTriangles
\* the loop of draw without the colour mask
transformNoMask(orig, trans, m, c, bpNil) ==
    [i \in 1..Len(trans) |->
        LET transPos == Mul3x1(m, <<orig[i].Position[1], orig[i].Position[2], 1>>)
        IN  [Position  |-> V(transPos[1], transPos[2]),
             Color     |-> orig[i].Color,
             Picture   |-> orig[i].Picture,
             Intensity |-> IF bpNil THEN 0 ELSE orig[i].Intensity]]

\* the loop of draw reading what the last draw left in trans
transformCompounds(orig, trans, m, c, bpNil) ==
    [i \in 1..Len(trans) |->
        LET transPos == Mul3x1(m, <<trans[i].Position[1], trans[i].Position[2], 1>>)
        IN  [Position  |-> V(transPos[1], transPos[2]),
             Color     |-> Mul(trans[i].Color, c),
             Picture   |-> trans[i].Picture,
             Intensity |-> IF bpNil THEN 0 ELSE trans[i].Intensity]]

\* the loop of draw without the projection by the matrix
transformNoMatrix(orig, trans, m, c, bpNil) ==
    [i \in 1..Len(trans) |->
        [Position  |-> V(orig[i].Position[1], orig[i].Position[2]),
         Color     |-> Mul(orig[i].Color, c),
         Picture   |-> orig[i].Picture,
         Intensity |-> IF bpNil THEN 0 ELSE orig[i].Intensity]]

\* the loop of draw without the test for a nil picture
transformKeepsIntensity(orig, trans, m, c, bpNil) ==
    [i \in 1..Len(trans) |->
        LET transPos == Mul3x1(m, <<orig[i].Position[1], orig[i].Position[2], 1>>)
        IN  [Position  |-> V(transPos[1], transPos[2]),
             Color     |-> Mul(orig[i].Color, c),
             Picture   |-> orig[i].Picture,
             Intensity |-> orig[i].Intensity]]

\* the loop of draw: every vertex of trans is rewritten from orig
transform(orig, trans, m, c, bpNil) ==
    [i \in 1..Len(trans) |->
        LET transPos == Mul3x1(m, <<orig[i].Position[1], orig[i].Position[2], 1>>)
        IN  [Position  |-> V(transPos[1], transPos[2]),
             Color     |-> Mul(orig[i].Color, c),
             Picture   |-> orig[i].Picture,
             Intensity |-> IF bpNil THEN 0 ELSE orig[i].Intensity]]

\* the tail of draw writing the geometry into the head of the grown buffer
accumulateAtHead(c, tri) ==
    LET grown == SetLen(c, Len(c) + Len(tri))
    IN  SliceUpdate(grown, 0, Len(tri), tri)

\* the tail of draw: grow the buffer and write the geometry into the new tail
accumulate(c, tri) ==
    LET grown == SetLen(c, Len(c) + Len(tri))
    IN  SliceUpdate(grown, Len(grown) - Len(tri), Len(grown), tri)

\* bt.draw(bp), called by op; bpNil says that bp is nil
draw(op, g, r, bpNil) ==
    LET b     == bt[g].b
        trans == transform(bt[g].orig, bt[g].trans, mat[b], col[b], bpNil)
        tri   == Deref(g)
    IN  /\ bt' = [bt EXCEPT ![g].trans = trans]
        /\ IF UpdateOK(tri, trans)
           THEN /\ heap'  = [heap EXCEPT ![g][bt[g].Triangles] = Update(tri, trans)]
                /\ cont'  = [cont EXCEPT ![b] = accumulate(cont[b], Update(tri, trans))]
                /\ dirty' = [dirty EXCEPT ![b] = TRUE]
                /\ drawn' = [drawn EXCEPT ![b] = drawn[b] + Len(tri)]
                /\ last'  = Call(op, b, g, r, "")
           ELSE \* bt.Triangles.Update(bt.trans) panics
                /\ last'  = Call(op, b, g, r, "LengthMismatch")
                /\ UNCHANGED <<heap, cont, dirty, drawn>>
        /\ UNCHANGED <<contPicture, mat, col, bp, snap, fresh, parent, flushed>>

\* bt.Draw()
batchTrianglesDraw(g) ==
    /\ Tick
    /\ bt[g].made
    /\ draw("batchTrianglesDraw", g, 0, TRUE)

\* bp.Draw without the test
SameBatchUnchecked(bpb, btb) == TRUE

\* the test of bp.Draw that lets the draw go on
SameBatch(bpb, btb) == bpb = btb

\* bp.Draw(t)
batchPictureDraw(r, g) ==
    /\ Tick
    /\ bp[r].made
    /\ bt[g].made
    /\ IF SameBatch(bp[r].b, bt[g].b)
       THEN draw("batchPictureDraw", g, r, FALSE)
       ELSE /\ last' = Call("batchPictureDraw", bt[g].b, g, r, "OwnershipViolation")
            /\ UNCHANGED <<contPicture, cont, dirty, mat, col, bt, heap, bp, drawn,
                           snap, fresh, parent, flushed>>

\* Drawer.Draw(t) that draws the buffer through a region of the target
DrawerDrawWithPicture(b, t) ==
    LET orig  == Update(MakeTrianglesData(Len(cont[b])), cont[b])
        trans == transform(orig, Update(MakeTrianglesData(Len(cont[b])), orig),
                           mat[t], col[t], FALSE)
        tri   == Update(Copy(cont[b]), trans)
    IN  /\ cont'    = [cont EXCEPT ![t] = accumulate(cont[t], tri)]
        /\ dirty'   = [dirty EXCEPT ![b] = FALSE, ![t] = TRUE]
        /\ drawn'   = [drawn EXCEPT ![t] = drawn[t] + Len(tri)]
        /\ flushed' = [flushed EXCEPT ![b] = [done |-> TRUE, cont |-> cont[b]]]

\* Drawer.Draw(t) of the Drawer of batch b: t.MakeTriangles(d.Triangles).Draw()
\* with no region, whatever d.Picture is; the Drawer is clean afterwards.
\* The geometry is made for this call from a copy of the buffer and dropped;
\* with t = b the buffer of b itself grows, and b is marked again by the draw.
DrawerDraw(b, t) ==
    LET orig  == Update(MakeTrianglesData(Len(cont[b])), cont[b])
        trans == transform(orig, Update(MakeTrianglesData(Len(cont[b])), orig),
                           mat[t], col[t], TRUE)
        tri   == Update(Copy(cont[b]), trans)
    IN  /\ cont'    = [cont EXCEPT ![t] = accumulate(cont[t], tri)]
        /\ dirty'   = [dirty EXCEPT ![b] = FALSE, ![t] = TRUE]
        /\ drawn'   = [drawn EXCEPT ![t] = drawn[t] + Len(tri)]
        /\ flushed' = [flushed EXCEPT ![b] = [done |-> TRUE, cont |-> cont[b]]]

\* b.Draw(t) onto the batch t, which may be b itself
BatchDraw(b, t) ==
    /\ Tick
    /\ DrawerDraw(b, t)
    /\ last' = [op |-> "BatchDraw", b |-> b, g |-> 0, r |-> 0, err |-> "",
                len |-> Len(cont[b]), t |-> t, tlen |-> Len(cont[t])]
    /\ UNCHANGED <<contPicture, mat, col, bt, heap, bp, snap, fresh, parent>>

\* bt.SetLen(len): the method of the embedded Triangles
batchTrianglesSetLen(g, len) ==
    /\ Tick
    /\ bt[g].made
    /\ heap' = [heap EXCEPT ![g][bt[g].Triangles] = SetLen(Deref(g), len)]
    /\ last' = Call("batchTrianglesSetLen", bt[g].b, g, 0, "")
    /\ UNCHANGED <<contPicture, cont, dirty, mat, col, bt, bp, drawn, snap, fresh, parent, flushed>>

\* bt.Update(t2): the method of the embedded Triangles
batchTrianglesUpdate(g, t2) ==
    /\ Tick
    /\ bt[g].made
    /\ IF UpdateOK(Deref(g), t2)
       THEN /\ heap' = [heap EXCEPT ![g][bt[g].Triangles] = Update(Deref(g), t2)]
            /\ last' = Call("batchTrianglesUpdate", bt[g].b, g, 0, "")
       ELSE /\ last' = Call("batchTrianglesUpdate", bt[g].b, g, 0, "LengthMismatch")
            /\ UNCHANGED heap
    /\ UNCHANGED <<contPicture, cont, dirty, mat, col, bt, bp, drawn, snap, fresh, parent, flushed>>

\* the caller rewrites the container it had handed to MakeTriangles
SourceUpdate(g) ==
    /\ Tick
    /\ bt[g].made
    /\ heap' = [heap EXCEPT ![g].t = Update(heap[g].t, Rewrite(Len(heap[g].t)))]
    /\ last' = Call("SourceUpdate", NilBatch, g, 0, "")
    /\ UNCHANGED <<contPicture, cont, dirty, mat, col, bt, bp, drawn, snap, fresh, parent, flushed>>

\* ------------------------------------------------------------ specification
Next ==
    \/ \E b \in Batches : Clear(b)
    \/ \E b \in Batches, m \in MatrixInputs : SetMatrix(b, m)
    \/ \E b \in Batches, c \in ColorInputs : SetColorMask(b, c)
    \/ \E b \in Batches, g \in Geoms, t \in Sources : MakeTriangles(b, g, t)
    \/ \E b \in Batches, r \in Regions : MakePicture(b, r)
    \/ \E r \in Regions, s \in Regions : batchPictureSlice(r, s)
    \/ \E g \in Geoms : batchTrianglesDraw(g)
    \/ \E r \in Regions, g \in Geoms : batchPictureDraw(r, g)
    \/ \E g \in Geoms, len \in 0..MaxGeomLen : batchTrianglesSetLen(g, len)
    \/ \E g \in Geoms, t2 \in Rewrites : batchTrianglesUpdate(g, t2)
    \/ \E g \in Geoms : SourceUpdate(g)
    \/ \E b \in Batches, t \in Batches : BatchDraw(b, t)

Spec == Init /\ [][Next]_vars

\* ------------------------------------------------------------------ claims
DrawOps == {"batchTrianglesDraw", "batchPictureDraw"}

\* the step is a call of bp.Draw or bt.Draw on geometry g
DrawStep(g) == ops' = ops + 1 /\ last'.op \in DrawOps /\ last'.g = g

\* the step is a draw of g that ended without a panic
DrewOK(g) == DrawStep(g) /\ last'.err = ""

\* the i-th vertex the step appended to the buffer of batch b
Appended(b, i) == cont'[b][Len(cont[b]) + i]

\* region r was returned by MakePicture (and not by Slice)
MadeByMakePicture(r) == bp[r].made /\ bp[r].original = r

\* C1: drawing a geometry of one batch through a region made by MakePicture of
\* another batch panics with the ownership error, and nothing is changed: not
\* the buffers, matrices and tints of the batches, not the geometry's data.
C1_OwnershipViolation ==
    [][\A r \in Regions, g \in Geoms :
          ( /\ ops' = ops + 1
            /\ last'.op = "batchPictureDraw" /\ last'.r = r /\ last'.g = g
            /\ MadeByMakePicture(r)
            /\ bp[r].b \in Batches /\ bt[g].b \in Batches /\ bp[r].b # bt[g].b )
          => /\ last'.err = "OwnershipViolation"
             /\ UNCHANGED <<cont, dirty, mat, col, bt, heap>>]_vars

\* a geometry with vertices was just drawn through a region that MakePicture
\* of the other batch returned, and the call panicked
C1_Witness ==
    /\ last.op = "batchPictureDraw"
    /\ last.err = "OwnershipViolation"
    /\ MadeByMakePicture(last.r)
    /\ bp[last.r].b \in Batches
    /\ bp[last.r].b # bt[last.g].b
    /\ Len(Deref(last.g)) > 0

\* C2: a region obtained by slicing a region that batch b made draws a
\* geometry of b without an ownership error, and appends its vertices to the
\* buffer of b.
C2_SlicesAllowed ==
    [][\A r \in Regions, g \in Geoms :
          ( /\ ops' = ops + 1
            /\ last'.op = "batchPictureDraw" /\ last'.r = r /\ last'.g = g
            /\ bp[r].made /\ bp[r].original # r
            /\ bp[bp[r].original].b = bt[g].b
            /\ UpdateOK(Deref(g), bt[g].trans) )
          => /\ last'.err = ""
             /\ Len(cont'[bt[g].b]) = Len(cont[bt[g].b]) + Len(Deref(g))]_vars

\* C3: the length of the buffer is the number of vertices drawn into it since
\* the batch was created or last cleared.
C3_LengthIsSumOfDraws == \A b \in Batches : Len(cont[b]) = drawn[b]

\* C4: a draw into a batch on which SetMatrix and SetColorMask were never
\* called appends vertices with the positions and colours of the input.
C4_FreshBatchIsNeutral ==
    [][\A g \in Geoms :
          (DrewOK(g) /\ fresh[bt[g].b])
          => \A i \in 1..Len(snap[g]) :
                /\ Appended(bt[g].b, i).Position = snap[g][i].Position
                /\ Appended(bt[g].b, i).Color = snap[g][i].Color]_vars

\* C5: every vertex a draw appends is the snapshot vertex with the position
\* multiplied by the batch's matrix, the colour multiplied component by
\* component (alpha too) by the batch's tint, and the picture coordinate kept;
\* identity and white change nothing, and half grey on white gives half grey.
C5_AppendedIsTransformed ==
    [][\A g \in Geoms :
          DrewOK(g) =>
            LET b == bt[g].b
                m == mat[b]
                c == col[b]
            IN  /\ Len(cont'[b]) = Len(cont[b]) + Len(snap[g])
                /\ \A i \in 1..Len(snap[g]) :
                      LET in  == snap[g][i]
                          out == Appended(b, i)
                          x   == in.Position[1]
                          y   == in.Position[2]
                      IN  /\ out.Position = <<m[1] * x + m[4] * y + m[7],
                                               m[2] * x + m[5] * y + m[8]>>
                          /\ \A k \in 1..4 : 64 * out.Color[k] = in.Color[k] * c[k]
                          /\ out.Picture = in.Picture
                          /\ (m = IM /\ c = White)
                                => out.Position = in.Position /\ out.Color = in.Color
                          /\ (c = Half /\ in.Color = White) => out.Color = Half]_vars

\* a draw under half grey just appended a vertex whose input colour was white
\* and whose position the matrix moved
C5_Witness ==
    /\ last.op \in DrawOps /\ last.err = ""
    /\ col[last.b] = Half /\ mat[last.b] = MA
    /\ Len(cont[last.b]) = last.len + Len(snap[last.g])
    /\ \E i \in 1..Len(snap[last.g]) :
          /\ snap[last.g][i].Color = White
          /\ cont[last.b][last.len + i].Color = Half
          /\ cont[last.b][last.len + i].Position # snap[last.g][i].Position

\* C6: bt.Draw() appends vertices of intensity 0 whatever the input intensity,
\* and bp.Draw(bt) appends vertices with the input intensity.
C6_Intensity ==
    [][\A g \in Geoms :
          DrewOK(g) =>
            \A i \in 1..Len(snap[g]) :
                /\ last'.op = "batchTrianglesDraw"
                      => Appended(bt[g].b, i).Intensity = 0
                /\ last'.op = "batchPictureDraw"
                      => Appended(bt[g].b, i).Intensity = snap[g][i].Intensity]_vars

\* the same input vertex of intensity 1 is in the buffer twice, with intensity
\* 0 from bt.Draw() and with intensity 1 from the bp.Draw(bt) just made
C6_Witness ==
    /\ last.op = "batchPictureDraw" /\ last.err = ""
    /\ \E i \in 1..Len(snap[last.g]) :
          /\ snap[last.g][i].Intensity = 1
          /\ cont[last.b][last.len + i].Intensity = 1
          /\ \E j \in 1..last.len :
                /\ cont[last.b][j].Picture = snap[last.g][i].Picture
                /\ cont[last.b][j].Intensity = 0
                /\ drawn[last.b] >= 2 * Len(snap[last.g])

\* C7: Clear leaves a buffer of length 0 and does not touch matrix and tint.
C7_Clear ==
    [][\A b \in Batches :
          (ops' = ops + 1 /\ last'.op = "Clear" /\ last'.b = b)
          => Len(cont'[b]) = 0 /\ mat' = mat /\ col' = col]_vars

\* Clear was just called on a batch that held vertices and had a matrix set
C7_Witness ==
    /\ last.op = "Clear" /\ last.len > 1
    /\ Len(cont[last.b]) = 0
    /\ mat[last.b] = MA

\* C8: SetMatrix and SetColorMask change neither the length nor the vertices
\* of the buffer; SetMatrix changes the matrix only and SetColorMask the tint
\* only.
C8_NotRetroactive ==
    [][\A b \in Batches :
          (ops' = ops + 1 /\ last'.op \in {"SetMatrix", "SetColorMask"} /\ last'.b = b)
          => /\ cont' = cont
             /\ last'.op = "SetMatrix" => col' = col
             /\ last'.op = "SetColorMask" => mat' = mat
             /\ \A o \in Batches \ {b} : mat'[o] = mat[o] /\ col'[o] = col[o]]_vars

\* SetMatrix was just called on a batch that holds drawn vertices, and it
\* changed the matrix
C8_Witness ==
    /\ last.op = "SetMatrix"
    /\ last.len > 0 /\ drawn[last.b] > 0
    /\ Len(cont[last.b]) = last.len
    /\ mat[last.b] = MA
    /\ \E i \in 1..last.len : cont[last.b][i].Position = <<1, 0>>

\* C9: a draw never changes the container handed to MakeTriangles, and what a
\* draw appends comes from that container as it was when MakeTriangles was
\* called, whatever the caller wrote into it afterwards.
C9_IndependentSnapshot ==
    [][\A g \in Geoms :
          /\ DrawStep(g) => heap'[g].t = heap[g].t
          /\ DrewOK(g) =>
                /\ Len(cont'[bt[g].b]) = Len(cont[bt[g].b]) + Len(snap[g])
                /\ \A i \in 1..Len(snap[g]) :
                      Appended(bt[g].b, i).Picture = snap[g][i].Picture]_vars

\* a draw just appended vertices of a geometry whose source container the
\* caller had rewritten after MakeTriangles
C9_Witness ==
    /\ last.op \in DrawOps /\ last.err = ""
    /\ Len(snap[last.g]) > 0
    /\ Len(cont[last.b]) = last.len + Len(snap[last.g])
    /\ heap[last.g].t # snap[last.g]
    /\ \E i \in 1..Len(snap[last.g]) :
          /\ heap[last.g].t[i].Picture # snap[last.g][i].Picture
          /\ cont[last.b][last.len + i].Position # snap[last.g][i].Position

\* C10: a batch is Empty at first and after Clear; a draw that succeeds makes
\* it Populated; only Clear makes a Populated batch Empty; SetMatrix and
\* SetColorMask leave it as it is.
C10_EmptyPopulated ==
    /\ \A b \in Batches : Len(cont[b]) = 0
    /\ [][\A b \in Batches :
            /\ (ops' = ops + 1 /\ last'.op = "Clear" /\ last'.b = b)
                  => Len(cont'[b]) = 0
            /\ (ops' = ops + 1 /\ last'.op \in DrawOps /\ last'.b = b /\ last'.err = "")
                  => Len(cont'[b]) > 0
            /\ (Len(cont[b]) > 0 /\ Len(cont'[b]) = 0)
                  => last'.op = "Clear" /\ last'.b = b
            /\ (ops' = ops + 1 /\ last'.op \in {"SetMatrix", "SetColorMask"})
                  => (Len(cont'[b]) = 0 <=> Len(cont[b]) = 0)]_vars

\* the region reached from r by going back through the Slice calls
RECURSIVE Root(_)
Root(r) == IF parent[r] = 0 THEN r ELSE Root(parent[r])

\* C11: Original() of a region made by MakePicture is the region itself, and
\* Original() of a region obtained from it by any number of Slice calls is
\* that same region.
C11_Original ==
    \A r \in Regions :
        bp[r].made =>
            /\ parent[r] = 0 => batchPictureOriginal(r) = r
            /\ batchPictureOriginal(r) = Root(r)
            /\ MadeByMakePicture(Root(r))

\* a slice of a slice of a region made by MakePicture exists
C11_Witness ==
    \E r \in Regions :
        /\ bp[r].made
        /\ parent[r] # 0
        /\ parent[parent[r]] # 0
        /\ parent[parent[parent[r]]] = 0
        /\ batchPictureOriginal(r) = parent[parent[r]]

\* the step is a call of a.Draw(t)
FlushStep(a, t) ==
    ops' = ops + 1 /\ last'.op = "BatchDraw" /\ last'.b = a /\ last'.t = t

\* what a.Draw(t) appends to the buffer of t: every vertex of the buffer of a,
\* in order, with intensity 0 and with t's matrix and tint applied
FlushAppends(a, t) ==
    /\ Len(cont'[t]) = Len(cont[t]) + Len(cont[a])
    /\ \A i \in 1..Len(cont[t]) : cont'[t][i] = cont[t][i]
    /\ \A i \in 1..Len(cont[a]) :
          LET in  == cont[a][i]
              out == Appended(t, i)
              m   == mat[t]
              x   == in.Position[1]
              y   == in.Position[2]
          IN  /\ out.Intensity = 0
              /\ out.Position = <<m[1] * x + m[4] * y + m[7],
                                   m[2] * x + m[5] * y + m[8]>>
              /\ \A k \in 1..4 : 64 * out.Color[k] = in.Color[k] * col[t][k]
              /\ out.Picture = in.Picture

\* C12 as stated: a.Draw(t) appends to the buffer of t every vertex of the
\* buffer of a, in order, with intensity 0 and with t's matrix and tint
\* applied, and leaves a's buffer, matrix and tint as they were, for every
\* target t.
C12_BatchDrawAnyTarget ==
    [][\A a \in Batches, t \in Batches :
          FlushStep(a, t) =>
            /\ FlushAppends(a, t)
            /\ cont'[a] = cont[a]
            /\ mat' = mat /\ col' = col]_vars

\* C12 amended: a.Draw(t) appends to the buffer of t every vertex of the
\* buffer of a, in order, with intensity 0 and with t's matrix and tint
\* applied, and leaves a's matrix and tint as they were; it leaves a's buffer
\* as it was when t is another target than a, and when t is a itself the
\* buffer of a grows by those vertices.
C12_BatchDraw ==
    [][\A a \in Batches, t \in Batches :
          FlushStep(a, t) =>
            /\ FlushAppends(a, t)
            /\ t # a => cont'[a] = cont[a]
            /\ mat' = mat /\ col' = col]_vars

\* a.Draw(t) just sent to another batch t a vertex of intensity 1 that a draw
\* through a region had put into a; it is in t with intensity 0
C12_Witness ==
    /\ last.op = "BatchDraw"
    /\ last.t # last.b
    /\ last.len > 0
    /\ Len(cont[last.b]) = last.len
    /\ Len(cont[last.t]) = last.tlen + last.len
    /\ \E i \in 1..last.len :
          /\ cont[last.b][i].Intensity = 1
          /\ cont[last.t][last.tlen + i].Intensity = 0
          /\ cont[last.t][last.tlen + i].Picture = cont[last.b][i].Picture

\* C13: a draw of a geometry of length n into a buffer of length L leaves the
\* vertices 1..L as they were and puts the geometry's vertices, in index
\* order, at L+1..L+n.
C13_TailOnly ==
    [][\A g \in Geoms :
          DrewOK(g) =>
            LET b == bt[g].b
                L == Len(cont[b])
                n == Len(Deref(g))
            IN  /\ Len(cont'[b]) = L + n
                /\ \A i \in 1..L : cont'[b][i] = cont[b][i]
                /\ \A i \in 1..n : cont'[b][L + i] = Deref(g)'[i]
                /\ \A i \in 1..n : cont'[b][L + i].Picture = bt[g].orig[i].Picture]_vars

\* a geometry of two different vertices was just drawn into a buffer that
\* already held a vertex; the old vertex is first and the two follow in order
C13_Witness ==
    /\ last.op \in DrawOps /\ last.err = ""
    /\ last.len > 0
    /\ Len(snap[last.g]) > 1
    /\ snap[last.g][1].Picture # snap[last.g][2].Picture
    /\ Len(cont[last.b]) = last.len + Len(snap[last.g])
    /\ cont[last.b][last.len + 1].Picture = snap[last.g][1].Picture
    /\ cont[last.b][last.len + 2].Picture = snap[last.g][2].Picture
    /\ cont[last.b][1].Picture # snap[last.g][1].Picture

\* C14: the vertices a caller wrote into a bound geometry with Update are what
\* the next draw of it transforms and appends.
C14_UpdateIsDrawn ==
    [][\A g \in Geoms :
          ( /\ last.op = "batchTrianglesUpdate" /\ last.err = "" /\ last.g = g
            /\ DrewOK(g) )
          => LET b == bt[g].b
                 m == mat[b]
             IN  /\ Len(cont'[b]) = Len(cont[b]) + Len(Deref(g))
                 /\ \A i \in 1..Len(Deref(g)) :
                       LET in  == Deref(g)[i]
                           out == Appended(b, i)
                       IN  /\ out.Position =
                                 <<m[1] * in.Position[1] + m[4] * in.Position[2] + m[7],
                                   m[2] * in.Position[1] + m[5] * in.Position[2] + m[8]>>
                           /\ \A k \in 1..4 : 64 * out.Color[k] = in.Color[k] * col[b][k]
                           /\ out.Picture = in.Picture]_vars

\* C15: a step that changes the buffer of a batch leaves the batch marked
\* modified, and a buffer that differs from what b.Draw last sent belongs to a
\* batch that is marked modified.
C15_Modified ==
    /\ [](\A b \in Batches :
            (flushed[b].done /\ cont[b] # flushed[b].cont) => dirty[b])
    /\ [][\A b \in Batches : cont'[b] # cont[b] => dirty'[b]]_vars

\* a batch that b.Draw had sent was just cleared or drawn into: its buffer is
\* no longer the one sent and it is marked modified
C15_Witness ==
    /\ last.op \in DrawOps \cup {"Clear"}
    /\ last.err = ""
    /\ flushed[last.b].done
    /\ Len(flushed[last.b].cont) > 0
    /\ cont[last.b] # flushed[last.b].cont
    /\ dirty[last.b]

\* C16: the container of a bound geometry, its original and its transformed
\* buffer always have one length, and no draw fails with a length mismatch.
C16_LengthsAgree ==
    /\ \A g \in Geoms :
          bt[g].made =>
              /\ Len(Deref(g)) = Len(bt[g].orig)
              /\ Len(bt[g].orig) = Len(bt[g].trans)
    /\ ~(last.op \in DrawOps /\ last.err = "LengthMismatch")

\* C17: a draw of a bound geometry that follows a draw of the same geometry,
\* made the same way, appends the block of vertices the first one appended,
\* although the first draw left the transformed vertices in the geometry's
\* own container.
C17_NotCompounded ==
    [][\A g \in Geoms :
          ( /\ last.op \in DrawOps /\ last.err = "" /\ last.g = g
            /\ DrewOK(g) /\ last'.op = last.op )
          => LET b == bt[g].b
                 L == Len(cont[b])
                 n == Len(snap[g])
             IN  /\ Len(cont'[b]) = L + n
                 /\ \A i \in 1..n : cont'[b][L + i] = cont[b][L - n + i]
                 /\ \A i \in 1..n : Deref(g)[i] = cont[b][L - n + i]
                 /\ Deref(g)' = Deref(g)]_vars

\* the same geometry was drawn twice under a matrix that moves its vertices,
\* and the last two blocks of the buffer are equal
C17_Witness ==
    /\ last.op \in DrawOps /\ last.err = ""
    /\ Len(snap[last.g]) > 0
    /\ last.len >= Len(snap[last.g])
    /\ drawn[last.b] >= 2 * Len(snap[last.g])
    /\ mat[last.b] = MA
    /\ Len(cont[last.b]) = last.len + Len(snap[last.g])
    /\ \A i \in 1..Len(snap[last.g]) :
          /\ cont[last.b][last.len + i] = cont[last.b][last.len - Len(snap[last.g]) + i]
          /\ cont[last.b][last.len + i].Position # snap[last.g][i].Position
          /\ Deref(last.g)[i] = cont[last.b][last.len + i]

\* C18: SetColorMask(nil) sets the tint to opaque white whatever it was, and
\* a draw made next appends vertices with the colours of the input.
C18_NilColorMask ==
    [][/\ \A b \in Batches :
            ( /\ ops' = ops + 1
              /\ last'.op = "SetColorMask" /\ last'.b = b /\ last'.nilColor )
            => col'[b] = NRGBA(64, 64, 64, 64)
       /\ \A g \in Geoms :
            ( /\ last.op = "SetColorMask" /\ last.nilColor /\ last.b = bt[g].b
              /\ DrewOK(g) )
            => \A i \in 1..Len(snap[g]) :
                  Appended(bt[g].b, i).Color = snap[g][i].Color]_vars

\* SetColorMask(nil) was just called on a batch whose buffer holds a white
\* vertex drawn under the half grey tint, and the tint is white
C18_Witness ==
    /\ last.op = "SetColorMask" /\ last.nilColor
    /\ col[last.b] = White
    /\ drawn[last.b] > 0
    /\ \E i \in 1..Len(cont[last.b]) :
          cont[last.b][i].Color = Half /\ cont[last.b][i].Picture = V1.Picture
====
